---- MODULE Spec2Model ----
(***************************************************************************)
(* IdeaGraph CoreAgent (IdeaGraph.Agents/IdeaGraph.Agents.py) and the      *)
(* POST /relation endpoint it can write through (IdeaGraph.FastAPI).       *)
(*                                                                         *)
(* A pipeline instance p runs main -> run_loop / run_once -> process_idea. *)
(* Every action is one stretch of code between two external calls          *)
(* (vector store, embedding provider, classifier, HTTP API).  Floats are   *)
(* scaled by 100 (confidence 0.75 is 75).  Exceptions are explicit control *)
(* states ("raised_...") so that each handler is an action of its own.     *)
(***************************************************************************)
EXTENDS Integers, Sequences, FiniteSets, TLC

(* ------------------------------ bounds -------------------------------- *)
\* passes one instance starts before the model stops following it
MaxPasses == 2
\* reads of check_existing_relation that fail in one run
MaxGuardFailures == 1

(* ------------------------------ inputs -------------------------------- *)
\* the ideas of the corpus, named in the order in which the store lists them
IdeaOrder == <<"A", "B", "C">>
\* the smaller corpus of the runs with failing guard reads, other writers or
\* two pipeline instances
PairOrder == <<"A", "B">>
\* the ideas that start without an embedding, one choice per run
MissingChoices == { {}, {"B"} }
Instances == {1, 2}
\* values the configuration file gives similarity_search.n_results
NResultsChoices == {2}
\* values the configuration file gives similarity_search.confidence_threshold
ThresholdChoices == {75}

(* --------------------- classifier results (JSON) ---------------------- *)
\* determine_relation returns None or the parsed JSON value; a JSON object is
\* modelled by the set of keys it has and their values.
NoneResult == [isNone |-> TRUE, keys |-> {}, relation_type |-> "", confidence |-> 0, description |-> ""]

Dict(keys, t, c, d) == [isNone |-> FALSE, keys |-> keys, relation_type |-> t, confidence |-> c, description |-> d]

FullKeys == {"relation_type", "confidence", "description"}

ClassifierResults ==
    { NoneResult,
      Dict({}, "", 0, ""),
      Dict(FullKeys, "none", 20, "why"),
      Dict(FullKeys, "none", 90, "why"),
      Dict(FullKeys, "extends", 20, "why"),
      Dict(FullKeys, "extends", 75, "why"),
      Dict(FullKeys, "extends", 90, "why"),
      Dict({"relation_type", "confidence"}, "similar", 90, ""),
      Dict({"confidence", "description"}, "", 90, "why"),
      Dict({"relation_type", "description"}, "extends", 0, "why") }

\* a non-empty JSON array: a truthy value without string keys, so that
\* subscripting it with "relation_type" raises
JsonArray == Dict({"0"}, "", 0, "")

\* what the call of the chat completion can end in: an error of the transport
\* or the provider (raise_for_status, a body without choices), a content that
\* json.loads rejects, or a content that parses to a JSON value
ClassifierOutcomes ==
    { [kind |-> "error", value |-> NoneResult],
      [kind |-> "unparseable", value |-> NoneResult] }
    \cup { [kind |-> "json", value |-> v] : v \in ClassifierResults \cup {JsonArray} }

\* determine_relation: `return json.loads(content)`, None on any exception
DetermineRelationResult(outcome) ==
    IF outcome.kind = "json" THEN outcome.value ELSE NoneResult

\* Python truthiness of the value determine_relation returned
Truthy(info) == ~info.isNone /\ info.keys # {}

(* ------------------------------ state --------------------------------- *)
VARIABLES
    ideas_collection,      \* vector store, collection "ideas": the idea records, in the store's order
    relations_collection,  \* vector store, collection "relations": set of entries
    use_direct_db,         \* config api.use_direct_db
    n_results,             \* config similarity_search.n_results
    confidence_threshold,  \* config similarity_search.confidence_threshold
    once,                  \* command line flag --once
    pc,                    \* per instance: where its control is
    passNo,                \* per instance: passes started so far (the clock of created_at)
    ideas,                 \* per instance: run_once's snapshot, a sequence of idea dicts
    idx,                   \* per instance: run_once's loop index into ideas
    similar_ids,           \* per instance: process_idea's similar_results["ids"][0]
    i,                     \* per instance: process_idea's loop index into similar_ids
    relation_info,         \* per instance: process_idea's relation_info
    invoked,               \* history: ids process_idea was called with in this pass
    checked,               \* history: neighbours of the idea in hand given to check_existing_relation
    classified,            \* history: neighbours of the idea in hand given to determine_relation
    guardFailures,         \* history: reads of check_existing_relation that failed so far
    config_error,          \* what is wrong with the configuration __init__ reads ("none": nothing)
    classifier,            \* the model's answer to each ordered pair where it is a function of
                           \* the pair (<<>> where its answers are free)
    arg,                   \* the input of a call of a pure function of the agent
    result                 \* how that call ended: a value returned, or an exception raised

cfgVars == <<use_direct_db, n_results, confidence_threshold, once, config_error>>
envVars == <<classifier, arg, result>>
storeVars == <<ideas_collection, relations_collection>>
loopVars == <<pc, passNo, ideas, idx>>
ideaVars == <<similar_ids, i, relation_info>>
histVars == <<invoked, checked, classified, guardFailures>>
vars == <<ideas_collection, relations_collection, use_direct_db, n_results,
          confidence_threshold, once, pc, passNo, ideas, idx, similar_ids, i,
          relation_info, invoked, checked, classified,
          guardFailures, config_error, classifier, arg, result>>

(* ----------------------------- helpers -------------------------------- *)
\* all sequences without repetition of exactly n elements of S
RECURSIVE Arrangements(_, _)
Arrangements(S, n) ==
    IF n = 0 \/ S = {} THEN {<<>>}
    ELSE UNION { { <<x>> \o rest : rest \in Arrangements(S \ {x}, n - 1) } : x \in S }

Min(a, b) == IF a <= b THEN a ELSE b

\* the idea process_idea is working on
Idea(p) == ideas[p][idx[p]]

\* the neighbour the loop of process_idea is at
SimilarId(p) == similar_ids[p][i[p]]

(* ------------------------------ Init ---------------------------------- *)
\* the text of an idea (title, description and tags, as create_idea joins them)
Document(id) == "text of " \o id

InitStore(order) ==
    /\ \E missing \in MissingChoices :
          ideas_collection =
              [k \in 1..Len(order) |->
                  [id |-> order[k], document |-> Document(order[k]),
                   embedding |-> order[k] \notin missing]]
    /\ relations_collection = {}

InitInstances ==
    /\ pc = [p \in Instances |-> "main"]
    /\ passNo = [p \in Instances |-> 0]
    /\ ideas = [p \in Instances |-> <<>>]
    /\ idx = [p \in Instances |-> 0]
    /\ similar_ids = [p \in Instances |-> <<>>]
    /\ i = [p \in Instances |-> 0]
    /\ relation_info = [p \in Instances |-> NoneResult]
    /\ invoked = [p \in Instances |-> <<>>]
    /\ checked = [p \in Instances |-> {}]
    /\ classified = [p \in Instances |-> {}]

\* the call has not been made
NotCalled == [returned |-> FALSE, raised |-> FALSE, value |-> <<>>]

\* the call returned v
Returned(v) == [returned |-> TRUE, raised |-> FALSE, value |-> v]

\* the call raised an exception
Raised == [returned |-> FALSE, raised |-> TRUE, value |-> <<>>]

\* a configuration __init__ accepts; no classifier table, no function call at hand
InitEnvironment ==
    /\ config_error = "none"
    /\ classifier = <<>>
    /\ arg = <<>>
    /\ result = NotCalled

InitWith(order) ==
    /\ InitStore(order)
    /\ use_direct_db \in BOOLEAN
    /\ n_results \in NResultsChoices
    /\ confidence_threshold \in ThresholdChoices
    /\ once = FALSE
    /\ InitInstances
    /\ InitEnvironment
    /\ guardFailures = 0

Init == InitWith(IdeaOrder)

InitPair == InitWith(PairOrder)

(* ------------------- vector store, collection "relations" ------------- *)
\* store_relation and add_relation: the composite record id
Rid(source_id, target_id, relation_type) ==
    source_id \o "->" \o target_id \o ":" \o relation_type

\* store_relation, direct mode: the entry handed to relations_collection.upsert
DirectEntry(source_id, target_id, relation_type, confidence, description, now) ==
    [ id |-> Rid(source_id, target_id, relation_type),
      document |-> relation_type \o ": " \o description,
      metadata |-> [ source_id |-> source_id,
                     target_id |-> target_id,
                     relation_type |-> relation_type,
                     weight |-> confidence,
                     description |-> description,
                     created_at |-> now,
                     created_by |-> "CoreAgent" ] ]

\* add_relation (POST /relation): the entry handed to relations.add; its
\* metadata is RelationIn.dict(), the four fields of the payload
ApiEntry(source_id, target_id, relation_type, weight) ==
    [ id |-> Rid(source_id, target_id, relation_type),
      document |-> source_id \o " " \o relation_type \o " " \o target_id,
      metadata |-> [ source_id |-> source_id,
                     target_id |-> target_id,
                     relation_type |-> relation_type,
                     weight |-> weight ] ]

\* a collection that appends on every write instead of replacing by id
UpsertAppend(coll, e) == coll \cup {e}

\* an upsert keyed by the source alone: the entry replaces every entry of its
\* source
UpsertBySource(coll, e) ==
    { x \in coll : x.metadata.source_id # e.metadata.source_id } \cup {e}

\* collection.upsert: the entry replaces the one with its id, if any
Upsert(coll, e) == { x \in coll : x.id # e.id } \cup {e}

\* collection.add: an entry whose id is already stored is ignored
CollectionAdd(coll, e) ==
    IF \E x \in coll : x.id = e.id THEN coll ELSE coll \cup {e}

\* a where-filter with only the first $and ordering
MatchesOneDirection(e, source_id, target_id) ==
    e.metadata.source_id = source_id /\ e.metadata.target_id = target_id

\* check_existing_relation's where-filter: $or of the two $and orderings
MatchesEitherDirection(e, source_id, target_id) ==
    \/ (e.metadata.source_id = source_id /\ e.metadata.target_id = target_id)
    \/ (e.metadata.source_id = target_id /\ e.metadata.target_id = source_id)

\* a guard that never finds a record
ExistingRelationNever(coll, source_id, target_id) == FALSE

\* check_existing_relation when the read succeeds: len(result["ids"]) > 0
ExistingRelation(coll, source_id, target_id) ==
    \E e \in coll : MatchesEitherDirection(e, source_id, target_id)

(* ----------------------------- scheduler ------------------------------ *)
\* what __init__ cannot be constructed from: _load_config finds no file or
\* cannot parse it (sys.exit(1)); _get_config_value finds no value for the
\* required chromadb or openai api_key (ValueError)
ConfigErrors == {"no_file", "unparseable", "no_chromadb_api_key", "no_openai_api_key"}

\* a main that starts the first pass whatever the configuration is
MainUnchecked(p) ==
    /\ pc[p] = "main"
    /\ pc' = [pc EXCEPT ![p] = "run_once"]
    /\ UNCHANGED <<cfgVars, envVars, storeVars, passNo, ideas, idx, ideaVars, histVars>>

\* main: CoreAgent(...) exits or raises on a configuration error; nothing
\* catches it, main ends before run_once or run_loop is called
ConstructFail(p) ==
    /\ pc[p] = "main"
    /\ config_error \in ConfigErrors
    /\ pc' = [pc EXCEPT ![p] = "exit_error"]
    /\ UNCHANGED <<cfgVars, envVars, storeVars, passNo, ideas, idx, ideaVars, histVars>>

\* main: the agent is constructed and the first pass is started
Main(p) ==
    /\ pc[p] = "main"
    /\ config_error = "none"
    /\ pc' = [pc EXCEPT ![p] = "run_once"]
    /\ UNCHANGED <<cfgVars, envVars, storeVars, passNo, ideas, idx, ideaVars, histVars>>

\* run_once up to its loop: get_all_ideas succeeded
GetAllIdeasOk(p) ==
    /\ pc[p] = "run_once"
    /\ passNo[p] < MaxPasses
    /\ ideas' = [ideas EXCEPT ![p] = ideas_collection]
    /\ pc' = [pc EXCEPT ![p] = IF ideas_collection = <<>> THEN "returned_run_once" ELSE "for_idea"]
    /\ idx' = [idx EXCEPT ![p] = 1]
    /\ passNo' = [passNo EXCEPT ![p] = @ + 1]
    /\ invoked' = [invoked EXCEPT ![p] = <<>>]
    /\ UNCHANGED <<cfgVars, envVars, storeVars, ideaVars, checked, classified, guardFailures>>

\* a get_all_ideas whose failure leaves run_once as an exception
GetAllIdeasFailRaise(p) ==
    /\ pc[p] = "run_once"
    /\ passNo[p] < MaxPasses
    /\ ideas' = [ideas EXCEPT ![p] = <<>>]
    /\ pc' = [pc EXCEPT ![p] = "raised_run_once"]
    /\ idx' = [idx EXCEPT ![p] = 1]
    /\ passNo' = [passNo EXCEPT ![p] = @ + 1]
    /\ invoked' = [invoked EXCEPT ![p] = <<>>]
    /\ UNCHANGED <<cfgVars, envVars, storeVars, ideaVars, checked, classified, guardFailures>>

\* run_once: ideas_collection.get raised, get_all_ideas returned [], run_once returns
GetAllIdeasFail(p) ==
    /\ pc[p] = "run_once"
    /\ passNo[p] < MaxPasses
    /\ ideas' = [ideas EXCEPT ![p] = <<>>]
    /\ pc' = [pc EXCEPT ![p] = "returned_run_once"]
    /\ idx' = [idx EXCEPT ![p] = 1]
    /\ passNo' = [passNo EXCEPT ![p] = @ + 1]
    /\ invoked' = [invoked EXCEPT ![p] = <<>>]
    /\ UNCHANGED <<cfgVars, envVars, storeVars, ideaVars, checked, classified, guardFailures>>

\* a process_idea that generates the embedding of every idea it is handed
ForIdeaAlwaysEmbed(p) ==
    /\ pc[p] = "for_idea"
    /\ IF idx[p] > Len(ideas[p])
       THEN /\ pc' = [pc EXCEPT ![p] = "returned_run_once"]
            /\ UNCHANGED invoked
       ELSE /\ invoked' = [invoked EXCEPT ![p] = Append(@, Idea(p).id)]
            /\ pc' = [pc EXCEPT ![p] = "embed"]
    /\ UNCHANGED <<cfgVars, envVars, storeVars, passNo, ideas, idx, ideaVars, checked, classified,
                   guardFailures>>

\* run_once's for loop: the next idea is handed to process_idea, which runs up
\* to its first external call; after the last idea run_once returns
ForIdea(p) ==
    /\ pc[p] = "for_idea"
    /\ IF idx[p] > Len(ideas[p])
       THEN /\ pc' = [pc EXCEPT ![p] = "returned_run_once"]
            /\ UNCHANGED invoked
       ELSE /\ invoked' = [invoked EXCEPT ![p] = Append(@, Idea(p).id)]
            /\ pc' = [pc EXCEPT ![p] = IF Idea(p).embedding THEN "query" ELSE "embed"]
    /\ UNCHANGED <<cfgVars, envVars, storeVars, passNo, ideas, idx, ideaVars, checked, classified,
                   guardFailures>>

\* a run_once that lists the corpus again before every idea
RunOnceContinueRelist(p) ==
    /\ pc[p] = "returned_process_idea"
    /\ pc' = [pc EXCEPT ![p] = "for_idea"]
    /\ idx' = [idx EXCEPT ![p] = @ + 1]
    /\ ideas' = [ideas EXCEPT ![p] = ideas_collection]
    /\ similar_ids' = [similar_ids EXCEPT ![p] = <<>>]
    /\ i' = [i EXCEPT ![p] = 0]
    /\ relation_info' = [relation_info EXCEPT ![p] = NoneResult]
    /\ checked' = [checked EXCEPT ![p] = {}]
    /\ classified' = [classified EXCEPT ![p] = {}]
    /\ UNCHANGED <<cfgVars, envVars, storeVars, passNo, invoked, guardFailures>>

\* run_once: process_idea returned, the loop goes on with the next idea
RunOnceContinue(p) ==
    /\ pc[p] = "returned_process_idea"
    /\ pc' = [pc EXCEPT ![p] = "for_idea"]
    /\ idx' = [idx EXCEPT ![p] = @ + 1]
    /\ similar_ids' = [similar_ids EXCEPT ![p] = <<>>]
    /\ i' = [i EXCEPT ![p] = 0]
    /\ relation_info' = [relation_info EXCEPT ![p] = NoneResult]
    /\ checked' = [checked EXCEPT ![p] = {}]
    /\ classified' = [classified EXCEPT ![p] = {}]
    /\ UNCHANGED <<cfgVars, envVars, storeVars, passNo, ideas, invoked, guardFailures>>

\* a run_once without the per-idea except clause: the exception leaves run_once
RunOnceExceptReraise(p) ==
    /\ pc[p] = "raised_process_idea"
    /\ pc' = [pc EXCEPT ![p] = "raised_run_once"]
    /\ UNCHANGED <<cfgVars, envVars, storeVars, passNo, ideas, idx, ideaVars, histVars>>

\* a run_once that hands the idea that raised to process_idea again
RunOnceExceptRetry(p) ==
    /\ pc[p] = "raised_process_idea"
    /\ pc' = [pc EXCEPT ![p] = "for_idea"]
    /\ similar_ids' = [similar_ids EXCEPT ![p] = <<>>]
    /\ i' = [i EXCEPT ![p] = 0]
    /\ relation_info' = [relation_info EXCEPT ![p] = NoneResult]
    /\ checked' = [checked EXCEPT ![p] = {}]
    /\ classified' = [classified EXCEPT ![p] = {}]
    /\ UNCHANGED <<cfgVars, envVars, storeVars, passNo, ideas, idx, invoked, guardFailures>>

\* run_once: process_idea raised; the except clause logs and continues
RunOnceExcept(p) ==
    /\ pc[p] = "raised_process_idea"
    /\ pc' = [pc EXCEPT ![p] = "for_idea"]
    /\ idx' = [idx EXCEPT ![p] = @ + 1]
    /\ similar_ids' = [similar_ids EXCEPT ![p] = <<>>]
    /\ i' = [i EXCEPT ![p] = 0]
    /\ relation_info' = [relation_info EXCEPT ![p] = NoneResult]
    /\ checked' = [checked EXCEPT ![p] = {}]
    /\ classified' = [classified EXCEPT ![p] = {}]
    /\ UNCHANGED <<cfgVars, envVars, storeVars, passNo, ideas, invoked, guardFailures>>

\* a main that leaves after the first pass whatever the mode
AfterRunOnceExit(p) ==
    /\ pc[p] = "returned_run_once"
    /\ pc' = [pc EXCEPT ![p] = "exit"]
    /\ UNCHANGED <<cfgVars, envVars, storeVars, passNo, ideas, idx, ideaVars, histVars>>

\* main / run_loop: run_once returned; --once ends the process, the loop sleeps
AfterRunOnce(p) ==
    /\ pc[p] = "returned_run_once"
    /\ pc' = [pc EXCEPT ![p] = IF once THEN "exit" ELSE "sleep"]
    /\ UNCHANGED <<cfgVars, envVars, storeVars, passNo, ideas, idx, ideaVars, histVars>>

\* run_loop: time.sleep(execution_interval) is over, the next pass starts
RunLoopSleep(p) ==
    /\ pc[p] = "sleep"
    /\ pc' = [pc EXCEPT ![p] = "run_once"]
    /\ UNCHANGED <<cfgVars, envVars, storeVars, passNo, ideas, idx, ideaVars, histVars>>

(* ---------------------------- process_idea ---------------------------- *)
\* the ideas the neighbour query can return: those that have an embedding
Embedded == { ideas_collection[k].id : k \in { n \in DOMAIN ideas_collection : ideas_collection[n].embedding } }

\* what leaves the frame of process_idea when it raises
Raise(p) == pc' = [pc EXCEPT ![p] = "raised_process_idea"]

\* process_idea's except clause around the neighbour search: log and return
CatchAndReturn(p) == pc' = [pc EXCEPT ![p] = "returned_process_idea"]

\* update_idea_embedding: embed_text and ideas_collection.update both succeeded
UpdateIdeaEmbeddingOk(p) ==
    /\ pc[p] = "embed"
    /\ ideas_collection' =
          [k \in DOMAIN ideas_collection |->
              IF ideas_collection[k].id = Idea(p).id
              THEN [ideas_collection[k] EXCEPT !.embedding = TRUE]
              ELSE ideas_collection[k]]
    /\ pc' = [pc EXCEPT ![p] = "query"]
    /\ UNCHANGED <<cfgVars, envVars, relations_collection, passNo, ideas, idx, ideaVars, histVars>>

\* an update_idea_embedding that swallows the error of embed_text
EmbedTextFailIgnored(p) ==
    /\ pc[p] = "embed"
    /\ pc' = [pc EXCEPT ![p] = "query"]
    /\ UNCHANGED <<cfgVars, envVars, storeVars, passNo, ideas, idx, ideaVars, histVars>>

\* update_idea_embedding: embed_text raised (logged and re-raised), outside any
\* try of process_idea
EmbedTextFail(p) ==
    /\ pc[p] = "embed"
    /\ Raise(p)
    /\ UNCHANGED <<cfgVars, envVars, storeVars, passNo, ideas, idx, ideaVars, histVars>>

\* update_idea_embedding: the embedding was generated, ideas_collection.update raised
UpdateEmbeddingFail(p) ==
    /\ pc[p] = "embed"
    /\ Raise(p)
    /\ UNCHANGED <<cfgVars, envVars, storeVars, passNo, ideas, idx, ideaVars, histVars>>

\* what ideas_collection.query(n_results = n_results + 1) can answer: the
\* nearest embedded ideas, nearest first
QueryResults == Arrangements(Embedded, Min(n_results + 1, Cardinality(Embedded)))

\* ideas_collection.query answered `res` (similar_results["ids"][0])
QueryReturns(p, res) ==
    /\ pc[p] = "query"
    /\ res \in QueryResults
    /\ similar_ids' = [similar_ids EXCEPT ![p] = res]
    /\ i' = [i EXCEPT ![p] = 1]
    /\ pc' = [pc EXCEPT ![p] = "for_similar"]
    /\ UNCHANGED <<cfgVars, envVars, storeVars, passNo, ideas, idx, relation_info, histVars>>

\* the neighbour query with whatever the store answers
QueryOk(p) == \E res \in QueryResults : QueryReturns(p, res)

\* ideas_collection.query raised: caught by process_idea's except clause
QueryFail(p) ==
    /\ pc[p] = "query"
    /\ CatchAndReturn(p)
    /\ UNCHANGED <<cfgVars, envVars, storeVars, passNo, ideas, idx, ideaVars, histVars>>

\* a neighbour loop without the self check
IsSelfNever(similar_id, idea_id) == FALSE

\* "Skip self"
IsSelf(similar_id, idea_id) == similar_id = idea_id

\* the head of the neighbour loop: the end of the list ends process_idea, the
\* idea itself is skipped, any other neighbour goes to check_existing_relation
ForSimilar(p) ==
    /\ pc[p] = "for_similar"
    /\ IF i[p] > Len(similar_ids[p])
       THEN /\ pc' = [pc EXCEPT ![p] = "returned_process_idea"]
            /\ UNCHANGED i
       ELSE IF IsSelf(SimilarId(p), Idea(p).id)
       THEN /\ i' = [i EXCEPT ![p] = @ + 1]
            /\ UNCHANGED pc
       ELSE /\ pc' = [pc EXCEPT ![p] = "check_existing"]
            /\ UNCHANGED i
    /\ UNCHANGED <<cfgVars, envVars, storeVars, passNo, ideas, idx, similar_ids, relation_info, histVars>>

\* check_existing_relation returned `found`: continue with the next neighbour,
\* or go on to determine_relation
AfterCheck(p, found) ==
    /\ checked' = [checked EXCEPT ![p] = @ \cup {SimilarId(p)}]
    /\ IF found
       THEN /\ i' = [i EXCEPT ![p] = @ + 1]
            /\ pc' = [pc EXCEPT ![p] = "for_similar"]
       ELSE /\ pc' = [pc EXCEPT ![p] = "determine_relation"]
            /\ UNCHANGED i

\* check_existing_relation: relations_collection.get answered
CheckExistingRelationOk(p) ==
    /\ pc[p] = "check_existing"
    /\ AfterCheck(p, ExistingRelation(relations_collection, Idea(p).id, SimilarId(p)))
    /\ UNCHANGED <<cfgVars, envVars, storeVars, passNo, ideas, idx, similar_ids, relation_info,
                   invoked, classified, guardFailures>>

\* check_existing_relation: relations_collection.get raised, "assume it doesn't exist"
CheckExistingRelationFail(p) ==
    /\ pc[p] = "check_existing"
    /\ guardFailures < MaxGuardFailures
    /\ guardFailures' = guardFailures + 1
    /\ AfterCheck(p, FALSE)
    /\ UNCHANGED <<cfgVars, envVars, storeVars, passNo, ideas, idx, similar_ids, relation_info,
                   invoked, classified>>

\* a gate without the confidence comparison
GateNoThreshold(info, threshold) ==
    IF ~Truthy(info) THEN "skip"
    ELSE IF "relation_type" \notin info.keys THEN "raise"
    ELSE IF info.relation_type = "none" THEN "skip"
    ELSE IF "confidence" \notin info.keys THEN "raise"
    ELSE "store"

\* a gate with the confidence comparison the wrong way round
GateBelowThreshold(info, threshold) ==
    IF ~Truthy(info) THEN "skip"
    ELSE IF "relation_type" \notin info.keys THEN "raise"
    ELSE IF info.relation_type = "none" THEN "skip"
    ELSE IF "confidence" \notin info.keys THEN "raise"
    ELSE IF info.confidence < threshold THEN "store"
    ELSE "skip"

\* process_idea between determine_relation and store_relation: "skip" goes on
\* with the next neighbour, "raise" is a KeyError on a missing key, "store"
\* calls store_relation
Gate(info, threshold) ==
    IF ~Truthy(info) THEN "skip"
    ELSE IF "relation_type" \notin info.keys THEN "raise"
    ELSE IF info.relation_type = "none" THEN "skip"
    ELSE IF "confidence" \notin info.keys THEN "raise"
    ELSE IF info.confidence >= threshold THEN "store"
    ELSE "skip"

\* determine_relation returned `info` (None on any error of the call or of
\* json.loads, otherwise the parsed value) and process_idea acts on it;
\* relation_info is kept only while store_relation is still to read it
DetermineRelationReturns(p, info) ==
    /\ pc[p] = "determine_relation"
    /\ LET g == Gate(info, confidence_threshold) IN
       /\ pc' = [pc EXCEPT ![p] =
                   CASE g = "skip" -> "for_similar"
                     [] g = "raise" -> "returned_process_idea"
                     [] OTHER -> "store_relation"]
       /\ i' = [i EXCEPT ![p] = IF g = "skip" THEN @ + 1 ELSE @]
       /\ relation_info' = [relation_info EXCEPT ![p] = IF g = "store" THEN info ELSE NoneResult]
    /\ classified' = [classified EXCEPT ![p] = @ \cup {SimilarId(p)}]
    /\ UNCHANGED <<cfgVars, envVars, storeVars, passNo, ideas, idx, similar_ids, invoked, checked,
                   guardFailures>>

\* determine_relation with whatever the classifier answers
DetermineRelation(p) ==
    \E outcome \in ClassifierOutcomes :
        DetermineRelationReturns(p, DetermineRelationResult(outcome))

\* relation_info.get("description", "")
Description(info) == IF "description" \in info.keys THEN info.description ELSE ""

\* store_relation returned: relations_created += 1, next neighbour
AfterStore(p) ==
    /\ i' = [i EXCEPT ![p] = @ + 1]
    /\ relation_info' = [relation_info EXCEPT ![p] = NoneResult]
    /\ pc' = [pc EXCEPT ![p] = "for_similar"]

\* store_relation raised: caught by process_idea's except clause, which ends
\* the neighbour loop
StoreRaised(p) ==
    /\ CatchAndReturn(p)
    /\ relation_info' = [relation_info EXCEPT ![p] = NoneResult]
    /\ UNCHANGED i

\* store_relation, use_direct_db: relations_collection.upsert
StoreRelationDirect(p) ==
    /\ pc[p] = "store_relation"
    /\ use_direct_db
    /\ relations_collection' =
          Upsert(relations_collection,
                 DirectEntry(Idea(p).id, SimilarId(p), relation_info[p].relation_type,
                             relation_info[p].confidence, Description(relation_info[p]),
                             passNo[p]))
    /\ AfterStore(p)
    /\ UNCHANGED <<cfgVars, envVars, ideas_collection, passNo, ideas, idx, similar_ids, histVars>>

\* store_relation, use_direct_db: relations_collection.upsert raised
StoreRelationDirectFail(p) ==
    /\ pc[p] = "store_relation"
    /\ use_direct_db
    /\ StoreRaised(p)
    /\ UNCHANGED <<cfgVars, envVars, storeVars, passNo, ideas, idx, similar_ids,
                   invoked, checked, classified, guardFailures>>

\* store_relation via POST /relation: add_relation stores the payload
StoreRelationApi(p) ==
    /\ pc[p] = "store_relation"
    /\ ~use_direct_db
    /\ relations_collection' =
          CollectionAdd(relations_collection,
                        ApiEntry(Idea(p).id, SimilarId(p), relation_info[p].relation_type,
                                 relation_info[p].confidence))
    /\ AfterStore(p)
    /\ UNCHANGED <<cfgVars, envVars, ideas_collection, passNo, ideas, idx, similar_ids, histVars>>

\* store_relation via POST /relation: add_relation stored the payload but the
\* answer did not arrive within the client's timeout; the await raises
StoreRelationApiTimeout(p) ==
    /\ pc[p] = "store_relation"
    /\ ~use_direct_db
    /\ relations_collection' =
          CollectionAdd(relations_collection,
                        ApiEntry(Idea(p).id, SimilarId(p), relation_info[p].relation_type,
                                 relation_info[p].confidence))
    /\ StoreRaised(p)
    /\ UNCHANGED <<cfgVars, envVars, ideas_collection, passNo, ideas, idx, similar_ids,
                   invoked, checked, classified, guardFailures>>

\* store_relation via POST /relation: the request failed or add_relation
\* answered 500 (its embed_text or relations.add raised); raise_for_status raises
StoreRelationApiFail(p) ==
    /\ pc[p] = "store_relation"
    /\ ~use_direct_db
    /\ StoreRaised(p)
    /\ UNCHANGED <<cfgVars, envVars, storeVars, passNo, ideas, idx, similar_ids,
                   invoked, checked, classified, guardFailures>>

\* the relation types the prompt of determine_relation asks to choose from
\* (besides "none")
RelationVocabulary == {"similar", "extends", "depends_on", "contradicts", "synergizes_with"}

\* answers of a model that does not keep to the prompt: a type outside the
\* vocabulary, a confidence above 1.0
OffPromptResults ==
    { Dict(FullKeys, "related", 90, "why"),
      Dict(FullKeys, "extends", 150, "why") }

\* determine_relation with an answer that does not keep to the prompt
DetermineRelationOffPrompt(p) ==
    \E info \in OffPromptResults :
        DetermineRelationReturns(p, DetermineRelationResult([kind |-> "json", value |-> info]))

(* --------------------------- other writers ---------------------------- *)
\* relation types another client of the API posts
ExternalTypes == {"depends_on"}

\* the (source, target) pairs another client of the API posts
ExternalPairs == { <<"B", "A">>, <<"B", "B">> }

\* POST /relation by another client of the API (weight defaults to 1.0)
ExternalAddRelation ==
    /\ \E st \in ExternalPairs, ty \in ExternalTypes :
          relations_collection' =
              CollectionAdd(relations_collection, ApiEntry(st[1], st[2], ty, 100))
    /\ UNCHANGED <<cfgVars, envVars, ideas_collection, loopVars, ideaVars, histVars>>

\* the id create_idea gives the idea it adds (a fresh uuid4)
NewIdeaId == "C"

\* POST /idea by a client of the API: create_idea embeds the text and adds the
\* idea with its embedding to the collection "ideas"
ExternalCreateIdea ==
    /\ \A k \in DOMAIN ideas_collection : ideas_collection[k].id # NewIdeaId
    /\ ideas_collection' =
          Append(ideas_collection,
                 [id |-> NewIdeaId, document |-> Document(NewIdeaId), embedding |-> TRUE])
    /\ UNCHANGED <<cfgVars, envVars, relations_collection, loopVars, ideaVars, histVars>>

(* --------------------------- specification ---------------------------- *)
\* the steps of pipeline instance p in which every external call succeeds
Succeeds(p) ==
    \/ Main(p)
    \/ GetAllIdeasOk(p)
    \/ ForIdea(p)
    \/ UpdateIdeaEmbeddingOk(p)
    \/ QueryOk(p)
    \/ ForSimilar(p)
    \/ CheckExistingRelationOk(p)
    \/ DetermineRelation(p)
    \/ StoreRelationDirect(p)
    \/ StoreRelationApi(p)
    \/ RunOnceContinue(p)
    \/ AfterRunOnce(p)
    \/ RunLoopSleep(p)

\* the steps in which an external call fails, but for the read of the dedup guard
Fails(p) ==
    \/ GetAllIdeasFail(p)
    \/ EmbedTextFail(p)
    \/ UpdateEmbeddingFail(p)
    \/ RunOnceExcept(p)
    \/ QueryFail(p)
    \/ StoreRelationDirectFail(p)
    \/ StoreRelationApiFail(p)
    \/ StoreRelationApiTimeout(p)

Step(p) == Succeeds(p) \/ Fails(p)

\* one pipeline instance, the only writer of the relation store, whose reads
\* of the relation store succeed
Next == Step(1)

Spec == Init /\ [][Next]_vars

\* one pipeline instance whose relation-store reads can fail
NextOutage == Step(1) \/ CheckExistingRelationFail(1)

SpecOutage == InitPair /\ [][NextOutage]_vars

\* one pipeline instance and the other clients of the API
NextShared == Step(1) \/ ExternalAddRelation

SpecShared == InitPair /\ [][NextShared]_vars

\* one pipeline instance in continuous mode whose every external call returns,
\* with a result or an error: the instance keeps taking steps
SpecLoop == InitPair /\ [][Next]_vars /\ WF_vars(Next)

\* single-pass mode (--once): main awaits run_once and returns
InitOnce ==
    /\ InitStore(IdeaOrder)
    /\ use_direct_db \in BOOLEAN
    /\ n_results \in NResultsChoices
    /\ confidence_threshold \in ThresholdChoices
    /\ once = TRUE
    /\ InitInstances
    /\ InitEnvironment
    /\ guardFailures = 0

\* the steps of an instance outside run_loop
NextOnce ==
    \/ Main(1)
    \/ GetAllIdeasOk(1)
    \/ GetAllIdeasFail(1)
    \/ ForIdea(1)
    \/ UpdateIdeaEmbeddingOk(1)
    \/ EmbedTextFail(1)
    \/ UpdateEmbeddingFail(1)
    \/ QueryOk(1)
    \/ QueryFail(1)
    \/ ForSimilar(1)
    \/ CheckExistingRelationOk(1)
    \/ DetermineRelation(1)
    \/ StoreRelationDirect(1)
    \/ StoreRelationDirectFail(1)
    \/ StoreRelationApi(1)
    \/ StoreRelationApiFail(1)
    \/ StoreRelationApiTimeout(1)
    \/ RunOnceContinue(1)
    \/ RunOnceExcept(1)
    \/ AfterRunOnce(1)

\* every external call returns, with a result or an error
SpecOnce == InitOnce /\ [][NextOnce]_vars /\ WF_vars(NextOnce)

\* one pipeline instance while a client of the API adds an idea
NextGrow == Step(1) \/ ExternalCreateIdea

SpecGrow == InitPair /\ [][NextGrow]_vars

\* one pipeline instance and a classifier that need not keep to the prompt
NextOffPrompt == Step(1) \/ DetermineRelationOffPrompt(1)

SpecOffPrompt == InitPair /\ [][NextOffPrompt]_vars

\* two pipeline instances on the same stores, no lock between them
NextTwo == \E p \in Instances : Succeeds(p)

SpecTwo == InitPair /\ [][NextTwo]_vars

(* ------------------- the end-to-end scenario of C10 ------------------- *)
\* corpus {A, B, C} with embeddings present, n_results = 2, threshold 0.75,
\* empty relation store
InitE2E ==
    /\ ideas_collection =
          [k \in 1..Len(IdeaOrder) |->
              [id |-> IdeaOrder[k], document |-> Document(IdeaOrder[k]), embedding |-> TRUE]]
    /\ relations_collection = {}
    /\ use_direct_db \in BOOLEAN
    /\ n_results = 2
    /\ confidence_threshold = 75
    /\ once = FALSE
    /\ InitInstances
    /\ InitEnvironment
    /\ guardFailures = 0

\* process_idea(A) of the first pass is under way
InScenario ==
    /\ passNo[1] = 1
    /\ idx[1] = 1
    /\ pc[1] \in {"query", "for_similar", "check_existing", "determine_relation",
                  "store_relation"}

\* the neighbour query for A answers B before C
ScenarioQuery ==
    \E res \in QueryResults :
        /\ \E j, k \in 1..Len(res) : j < k /\ res[j] = "B" /\ res[k] = "C"
        /\ QueryReturns(1, res)

\* the classifier answers (extends, 0.9) for (A,B) and (none, 0.2) for (A,C)
ScenarioDetermineRelation ==
    /\ pc[1] = "determine_relation"
    /\ DetermineRelationReturns(1, IF SimilarId(1) = "B"
                                   THEN Dict(FullKeys, "extends", 90, "why")
                                   ELSE Dict(FullKeys, "none", 20, "why"))

NextE2E ==
    \/ InScenario /\ ScenarioQuery
    \/ InScenario /\ ForSimilar(1)
    \/ InScenario /\ CheckExistingRelationOk(1)
    \/ InScenario /\ ScenarioDetermineRelation
    \/ InScenario /\ StoreRelationDirect(1)
    \/ InScenario /\ StoreRelationApi(1)
    \/ ~InScenario /\ Step(1)

SpecE2E == InitE2E /\ [][NextE2E]_vars

(* ------------------------------ properties ---------------------------- *)
\* the unordered pair of ideas a relation record connects
PairOf(e) == {e.metadata.source_id, e.metadata.target_id}

\* the relation records between a and b, in either direction
RecordsBetween(a, b) == { e \in relations_collection : PairOf(e) = {a, b} }

\* the ids of the corpus
IdeaIds == { IdeaOrder[k] : k \in 1..Len(IdeaOrder) }

\* the idea instance p has in hand
InProcessIdea(p) == idx[p] \in 1..Len(ideas[p])

\* a classification that is non-null, not "none" and at or above the threshold
Qualifies(info, threshold) ==
    /\ ~info.isNone
    /\ "relation_type" \in info.keys
    /\ info.relation_type # "none"
    /\ "confidence" \in info.keys
    /\ info.confidence >= threshold

\* C1: store_relation is invoked only with a classification that is non-null,
\* not "none" and of confidence >= confidence_threshold, and the relation store
\* changes only in such an invocation: a null, "none" or sub-threshold
\* classification writes nothing
C1_StoreOnlyQualified ==
    /\ [](\A p \in Instances :
            pc[p] = "store_relation" => Qualifies(relation_info[p], confidence_threshold))
    /\ [][relations_collection' # relations_collection =>
            \E p \in Instances :
                /\ pc[p] = "store_relation"
                /\ Qualifies(relation_info[p], confidence_threshold)]_vars

\* C1: store_relation is being invoked with a confidence equal to the threshold
C1_Witness ==
    /\ pc[1] = "store_relation"
    /\ relation_info[1].confidence = confidence_threshold

\* C2: with one instance as the only writer and relation-store reads that
\* succeed, there is never more than one relation record for an unordered
\* pair of ideas, in either direction
C2_OneRecordPerPair ==
    \A e1, e2 \in relations_collection : PairOf(e1) = PairOf(e2) => e1 = e2

\* C2: the second pass is over and the store holds a record written while the
\* later idea of a pair was processed (B->A) and one written while the earlier
\* was (A->C)
C2_Witness ==
    /\ pc[1] = "returned_run_once"
    /\ passNo[1] = 2
    /\ \E e \in relations_collection :
          e.metadata.source_id = "B" /\ e.metadata.target_id = "A"
    /\ \E e \in relations_collection :
          e.metadata.source_id = "A" /\ e.metadata.target_id = "C"

\* C3: the guard, the classifier and the persister are never reached for a
\* neighbour that is the processed idea itself, and no stored relation has the
\* same idea as source and target
C3_NoSelfRelation ==
    /\ \A p \in Instances :
          pc[p] \in {"check_existing", "determine_relation", "store_relation"}
              => SimilarId(p) # Idea(p).id
    /\ \A e \in relations_collection : e.metadata.source_id # e.metadata.target_id

\* C3: the idea itself was among the neighbours, was passed over, and a
\* relation to a later neighbour is being persisted
C3_Witness ==
    /\ pc[1] = "store_relation"
    /\ \E k \in 1..(i[1] - 1) : similar_ids[1][k] = Idea(1).id

\* C4: a store_relation call that returns for an identity source->target:type
\* that is already stored leaves exactly one record of that identity, and the
\* record carries the weight of this call (last write wins)
C4_LastWriteWins ==
    [][\A p \in Instances :
          (/\ pc[p] = "store_relation"
           /\ pc'[p] = "for_similar"
           /\ \E e \in relations_collection :
                 e.id = Rid(Idea(p).id, SimilarId(p), relation_info[p].relation_type))
          => (/\ Cardinality({ e \in relations_collection' :
                     e.id = Rid(Idea(p).id, SimilarId(p), relation_info[p].relation_type) }) = 1
              /\ \A e \in relations_collection' :
                     e.id = Rid(Idea(p).id, SimilarId(p), relation_info[p].relation_type)
                         => e.metadata.weight = relation_info[p].confidence)]_vars

\* C5: run_once never raises, and when it returns process_idea has been
\* invoked for every idea of the snapshot, in order, whatever failed for one
\* of them
C5_PassSurvivesEmbeddingFailure ==
    \A p \in Instances :
        /\ pc[p] # "raised_run_once"
        /\ (pc[p] = "returned_run_once" /\ ideas[p] # <<>>)
              => invoked[p] = [k \in 1..Len(ideas[p]) |-> ideas[p][k].id]

\* C5: a pass over three ideas is over in which the embedding of one idea was
\* missing and could not be generated or written back
C5_Witness ==
    /\ pc[1] = "returned_run_once"
    /\ Len(ideas[1]) = 3
    /\ Len(invoked[1]) = 3
    /\ \E k \in 1..3 : ~ideas[1][k].embedding /\ ~ideas_collection[k].embedding

\* C6: when process_idea returns after its neighbour query answered, every
\* neighbour other than the idea itself has been checked by the guard
C6_LoopContinues ==
    \A p \in Instances :
        (pc[p] = "returned_process_idea" /\ similar_ids[p] # <<>>)
            => \A k \in 1..Len(similar_ids[p]) :
                  similar_ids[p][k] # Idea(p).id => similar_ids[p][k] \in checked[p]

\* C7: when the guard is asked about a pair that has a relation record of any
\* type in either direction, the pair is skipped: the classifier is not invoked
\* and nothing is written
C7_RelatedPairSkipped ==
    [][\A p \in Instances :
          (/\ pc[p] = "check_existing"
           /\ pc'[p] # pc[p]
           /\ RecordsBetween(Idea(p).id, SimilarId(p)) # {})
          => (/\ pc'[p] = "for_similar"
              /\ classified'[p] = classified[p]
              /\ relations_collection' = relations_collection)]_vars

\* C7: while A was processed its neighbour B was checked and passed over
\* without classification, the record between them being one another client
\* posted in the opposite direction
C7_Witness ==
    /\ pc[1] = "for_similar"
    /\ InProcessIdea(1)
    /\ Idea(1).id = "A"
    /\ "B" \in checked[1]
    /\ "B" \notin classified[1]
    /\ ApiEntry("B", "A", "depends_on", 100) \in relations_collection

C9_OneRecordPerPairConcurrent ==
    \A a, b \in IdeaIds : a # b => Cardinality(RecordsBetween(a, b)) < 2

\* C9 amended: with two instances on the same store, an unordered pair has at
\* most one record per identity source->target:type and at most as many
\* records as there are instances
C9_BoundedByInstances ==
    /\ \A e1 \in relations_collection :
          Cardinality({ e2 \in relations_collection : e2.id = e1.id }) = 1
    /\ \A a, b \in IdeaIds : Cardinality(RecordsBetween(a, b)) <= Cardinality(Instances)

\* C9: the two instances process two mutual neighbours, both have passed the
\* guard and the classifier, and both are about to write
C9_Witness ==
    /\ pc[1] = "store_relation"
    /\ pc[2] = "store_relation"
    /\ SimilarId(1) = Idea(2).id
    /\ SimilarId(2) = Idea(1).id

\* C10: in the scenario, when process_idea(A) has returned the relation store
\* holds exactly one record, A->B of type extends with weight 0.9
C10_EndToEnd ==
    (pc[1] = "returned_process_idea" /\ passNo[1] = 1 /\ idx[1] = 1)
        => \E e \in relations_collection :
              /\ relations_collection = {e}
              /\ e.id = "A->B:extends"
              /\ e.metadata.source_id = "A"
              /\ e.metadata.target_id = "B"
              /\ e.metadata.relation_type = "extends"
              /\ e.metadata.weight = 90

\* C10: process_idea(A) has returned after both B and C were classified
C10_Witness ==
    /\ pc[1] = "returned_process_idea"
    /\ passNo[1] = 1
    /\ idx[1] = 1
    /\ classified[1] = {"B", "C"}

\* the store holds an embedding for the idea
HasEmbedding(coll, id) == \E k \in DOMAIN coll : coll[k].id = id /\ coll[k].embedding

\* the control states of process_idea from the neighbour query on
QueryOrLater == {"query", "for_similar", "check_existing", "determine_relation",
                 "store_relation"}

\* C11: the neighbour query and everything after it run only for an idea whose
\* embedding was in the snapshot or has been written back to the store; a
\* missing embedding is either written back before the query or the idea is
\* given up for the pass with nothing queried, classified or written; the idea
\* store changes only for the idea in hand
C11_EmbeddingBeforeQuery ==
    /\ [](\A p \in Instances :
            pc[p] \in QueryOrLater
                => (Idea(p).embedding \/ HasEmbedding(ideas_collection, Idea(p).id)))
    /\ [][\A p \in Instances :
            (pc[p] = "embed" /\ pc'[p] # "embed")
                => \/ pc'[p] = "query" /\ HasEmbedding(ideas_collection', Idea(p).id)
                   \/ pc'[p] = "raised_process_idea" /\ UNCHANGED storeVars]_vars
    /\ [][\A p \in Instances :
            (pc[p] = "raised_process_idea" /\ pc'[p] # pc[p])
                => /\ pc'[p] = "for_idea"
                   /\ idx'[p] = idx[p] + 1
                   /\ UNCHANGED storeVars]_vars
    /\ [][ideas_collection' # ideas_collection =>
            \E p \in Instances :
                /\ pc[p] = "embed"
                /\ \A k \in DOMAIN ideas_collection :
                      ideas_collection'[k] # ideas_collection[k]
                          => ideas_collection[k].id = Idea(p).id]_vars

\* C11: the snapshot of the idea in hand had no embedding, one was generated
\* and written back, and the neighbour query is about to be issued
C11_Witness ==
    /\ pc[1] = "query"
    /\ ~Idea(1).embedding
    /\ HasEmbedding(ideas_collection, Idea(1).id)

\* C12: in continuous mode the process never exits; a pass starts only from
\* main or from the sleep that follows the previous pass, so passes do not
\* overlap; run_once's return is followed by the sleep; and, as long as the
\* model follows the instance (MaxPasses), every pass is followed by another
C12_LoopNeverEnds ==
    /\ [](~once => pc[1] # "exit")
    /\ [][(pc'[1] = "run_once" /\ pc[1] # "run_once") => pc[1] \in {"main", "sleep"}]_vars
    /\ [][(pc[1] = "returned_run_once" /\ pc'[1] # pc[1]) => pc'[1] = "sleep"]_vars
    /\ [][passNo'[1] # passNo[1] => (pc[1] = "run_once" /\ passNo'[1] = passNo[1] + 1)]_vars
    /\ \A n \in 0..(MaxPasses - 1) : (passNo[1] = n) ~> (passNo[1] = n + 1)

\* C12: the second pass has started after a first pass that failed for B (its
\* listing or the generation of B's embedding), B being still without one
C12_Witness ==
    /\ passNo[1] = 2
    /\ pc[1] = "for_idea"
    /\ idx[1] = 1
    /\ \E k \in DOMAIN ideas[1] : ideas[1][k].id = "B" /\ ~ideas[1][k].embedding

\* the ids of a listing, in listing order
Ids(listing) == [k \in 1..Len(listing) |-> listing[k].id]

\* C13: with --once the ideas handed to process_idea are at every moment the
\* first ideas of the snapshot, each once and in listing order; the process
\* ends, and when it has ended exactly one pass was made and every idea of the
\* snapshot was handed over
C13_SinglePass ==
    /\ [](\A p \in Instances :
            /\ Len(invoked[p]) <= Len(ideas[p])
            /\ invoked[p] = SubSeq(Ids(ideas[p]), 1, Len(invoked[p])))
    /\ [](pc[1] = "exit" => (passNo[1] = 1 /\ invoked[1] = Ids(ideas[1])))
    /\ [][pc[1] = "exit" => pc'[1] = "exit"]_vars
    /\ (once => <>(pc[1] = "exit"))

\* C13: the single pass over three ideas is over and the process has ended,
\* one idea having failed at its embedding
C13_Witness ==
    /\ pc[1] = "exit"
    /\ Len(invoked[1]) = 3
    /\ \E k \in 1..3 : ~ideas[1][k].embedding /\ ~ideas_collection[k].embedding

SchemaViolation(outcome) ==
    \/ outcome.kind # "json"
    \/ outcome.value.isNone
    \/ outcome.value = JsonArray
    \/ "relation_type" \notin outcome.value.keys
    \/ "confidence" \notin outcome.value.keys

\* C15: for every classifier outcome that violates the schema determine_relation
\* returns null (or the empty object, which process_idea treats alike), and
\* process_idea goes on with the next neighbour with nothing written
C15_SchemaViolationIsNull ==
    [][\A p \in Instances, outcome \in ClassifierOutcomes :
          (SchemaViolation(outcome)
             /\ DetermineRelationReturns(p, DetermineRelationResult(outcome)))
          => (/\ ~Truthy(DetermineRelationResult(outcome))
              /\ pc'[p] = "for_similar"
              /\ i'[p] = i[p] + 1
              /\ relations_collection' = relations_collection)]_vars

\* C16: a store_relation call that returns adds exactly one record to the
\* relation store, with the identity source->target:type, the processed idea as
\* source, the neighbour as target, the classifier's type, confidence (as
\* weight) and description, a creation timestamp and the provenance tag
\* "CoreAgent", in both storage modes
C16_RecordWritten ==
    [][\A p \in Instances :
          (pc[p] = "store_relation" /\ pc'[p] = "for_similar")
          => \E e \in relations_collection' :
                /\ e \notin relations_collection
                /\ relations_collection' = relations_collection \cup {e}
                /\ e.id = Rid(Idea(p).id, SimilarId(p), relation_info[p].relation_type)
                /\ e.metadata.source_id = Idea(p).id
                /\ e.metadata.target_id = SimilarId(p)
                /\ e.metadata.relation_type = relation_info[p].relation_type
                /\ e.metadata.weight = relation_info[p].confidence
                /\ {"description", "created_at", "created_by"} \subseteq DOMAIN e.metadata
                /\ e.metadata.description = Description(relation_info[p])
                /\ e.metadata.created_by = "CoreAgent"]_vars

\* C17: every stored relation record has a type of the vocabulary and a
\* weight in [0,1], whatever the classifier answers
C17_VocabularyAndRange ==
    \A e \in relations_collection :
        /\ e.metadata.relation_type \in RelationVocabulary
        /\ e.metadata.weight \in 0..100

\* C18 as stated: no step changes or removes a stored relation record, also
\* when reads of the guard fail
C18_NeverMutated ==
    [][relations_collection \subseteq relations_collection']_vars

\* C18 amended: no step removes a record identity from the relation store; no
\* step changes a stored record in API mode, nor in direct mode as long as no
\* read of the guard has failed (after a guard that failed open, the upsert of
\* the same identity overwrites weight, description and timestamp)
C18_KeptWhileGuardReads ==
    [][/\ \A e \in relations_collection : \E e2 \in relations_collection' : e2.id = e.id
       /\ (guardFailures = 0 \/ ~use_direct_db)
             => relations_collection \subseteq relations_collection']_vars

\* C18: in direct mode a record created in the first pass is still there, with
\* its timestamp, when the second pass is over, no read of the guard having
\* failed
C18_Witness ==
    /\ use_direct_db
    /\ guardFailures = 0
    /\ passNo[1] = 2
    /\ pc[1] = "returned_run_once"
    /\ \E e \in relations_collection : e.metadata.created_at = 1

\* C19: an embedding is generated only for an idea that has none, in the
\* snapshot and in the store; a step that changes the idea store changes
\* nothing but the embedding of the idea in hand, from absent to present: the
\* ideas stored, their order and their text stay as they are
C19_OnlyMissingEmbeddingWritten ==
    /\ [](\A p \in Instances :
            pc[p] = "embed"
                => (~Idea(p).embedding /\ ~HasEmbedding(ideas_collection, Idea(p).id)))
    /\ [][ideas_collection' # ideas_collection =>
            \E p \in Instances :
                /\ pc[p] = "embed"
                /\ Len(ideas_collection') = Len(ideas_collection)
                /\ \A k \in DOMAIN ideas_collection :
                      /\ ideas_collection'[k].id = ideas_collection[k].id
                      /\ ideas_collection'[k].document = ideas_collection[k].document
                      /\ ideas_collection'[k].embedding # ideas_collection[k].embedding
                            => (/\ ideas_collection[k].id = Idea(p).id
                                /\ ideas_collection'[k].embedding)]_vars

\* C19: a pass is over in which the missing embedding of one idea was
\* written, the text of that idea being what it was
C19_Witness ==
    /\ pc[1] = "returned_run_once"
    /\ \E k \in DOMAIN ideas[1] :
          /\ ~ideas[1][k].embedding
          /\ ideas_collection[k].embedding
          /\ ideas_collection[k].document = ideas[1][k].document

\* what a store_relation step leaves alone: the idea store and every relation
\* record but the one of the identity built from the arguments, of which there
\* is at most one afterwards and exactly one when the call returned
StoreRelationFrame(p) ==
    LET rid == Rid(Idea(p).id, SimilarId(p), relation_info[p].relation_type) IN
    /\ ideas_collection' = ideas_collection
    /\ \A e \in relations_collection \cup relations_collection' :
          e.id # rid => (e \in relations_collection <=> e \in relations_collection')
    /\ Cardinality({ e \in relations_collection' : e.id = rid }) <= 1
    /\ pc'[p] = "for_similar" => \E e \in relations_collection' : e.id = rid

C21_GuardBothDirectionsFailOpen ==
    /\ [](\A a, b \in IdeaIds :
             /\ ExistingRelation(relations_collection, a, b)
                  <=> \E e \in relations_collection :
                         <<e.metadata.source_id, e.metadata.target_id>> \in {<<a, b>>, <<b, a>>}
             /\ ExistingRelation(relations_collection, a, b)
                  = ExistingRelation(relations_collection, b, a))
    /\ [][\A p \in Instances :
             pc[p] = "check_existing" /\ pc'[p] # pc[p] =>
                 /\ pc'[p] \in {"for_similar", "determine_relation"}
                 /\ UNCHANGED storeVars
                 /\ IF guardFailures' # guardFailures
                    THEN pc'[p] = "determine_relation"
                    ELSE pc'[p] = "determine_relation"
                             <=> RecordsBetween(Idea(p).id, SimilarId(p)) = {}]_vars

\* a read of the guard failed for a pair that has a record, written with the
\* neighbour as source, and the pair went on to classification
C21_Witness ==
    /\ guardFailures > 0
    /\ pc[1] = "determine_relation"
    /\ \E e \in relations_collection :
          /\ e.metadata.source_id = SimilarId(1)
          /\ e.metadata.target_id = Idea(1).id

(* ---------------- continuous mode without a bound on the passes -------- *)
\* run_once of a pass after the pass counter has reached MaxPasses: the
\* listing as in GetAllIdeasOk; the counter, the clock of created_at, stays
GetAllIdeasOkLate(p) ==
    /\ pc[p] = "run_once"
    /\ passNo[p] = MaxPasses
    /\ ideas' = [ideas EXCEPT ![p] = ideas_collection]
    /\ pc' = [pc EXCEPT ![p] = IF ideas_collection = <<>> THEN "returned_run_once" ELSE "for_idea"]
    /\ idx' = [idx EXCEPT ![p] = 1]
    /\ invoked' = [invoked EXCEPT ![p] = <<>>]
    /\ UNCHANGED <<cfgVars, envVars, storeVars, passNo, ideaVars, checked, classified,
                   guardFailures>>

\* the failed listing of such a pass, as in GetAllIdeasFail
GetAllIdeasFailLate(p) ==
    /\ pc[p] = "run_once"
    /\ passNo[p] = MaxPasses
    /\ ideas' = [ideas EXCEPT ![p] = <<>>]
    /\ pc' = [pc EXCEPT ![p] = "returned_run_once"]
    /\ idx' = [idx EXCEPT ![p] = 1]
    /\ invoked' = [invoked EXCEPT ![p] = <<>>]
    /\ UNCHANGED <<cfgVars, envVars, storeVars, passNo, ideaVars, checked, classified,
                   guardFailures>>

NextRetry == Step(1) \/ GetAllIdeasOkLate(1) \/ GetAllIdeasFailLate(1)

\* run_loop for ever: every external call returns, with a result or an error;
\* the listing and the generation and write-back of an embedding, tried again
\* and again, do not fail for ever
SpecRetry ==
    /\ InitPair
    /\ [][NextRetry]_vars
    /\ WF_vars(NextRetry)
    /\ SF_vars(GetAllIdeasOk(1) \/ GetAllIdeasOkLate(1))
    /\ SF_vars(UpdateIdeaEmbeddingOk(1))

\* the ids of the two-idea corpus
PairIds == { PairOrder[k] : k \in 1..Len(PairOrder) }

InitStartup ==
    /\ InitStore(PairOrder)
    /\ use_direct_db \in BOOLEAN
    /\ n_results \in NResultsChoices
    /\ confidence_threshold \in ThresholdChoices
    /\ once \in BOOLEAN
    /\ config_error \in ConfigErrors \cup {"none"}
    /\ classifier = <<>>
    /\ arg = <<>>
    /\ result = NotCalled
    /\ InitInstances
    /\ guardFailures = 0

NextStartup == Step(1) \/ ConstructFail(1)

SpecStartup == InitStartup /\ [][NextStartup]_vars

\* C23: with a configuration error the process leaves main only by ending
\* with the error; no pass is started, nothing is listed, no idea is handed to
\* process_idea, guard-checked or classified, and neither the idea store nor
\* the relation store is written
C23_ConfigErrorFatal ==
    /\ [](config_error # "none" =>
             /\ pc[1] \in {"main", "exit_error"}
             /\ passNo[1] = 0
             /\ ideas[1] = <<>>
             /\ invoked[1] = <<>>
             /\ checked[1] = {}
             /\ classified[1] = {}
             /\ relations_collection = {})
    /\ [][config_error # "none" =>
             /\ UNCHANGED storeVars
             /\ pc'[1] # pc[1] => pc[1] = "main" /\ pc'[1] = "exit_error"]_vars

\* the agent ended at construction for want of the OpenAI credential
C23_Witness ==
    /\ config_error = "no_openai_api_key"
    /\ pc[1] = "exit_error"

(* ------------------------ embed_text, normalisation -------------------- *)
\* bounds of the raw vectors: number of components, size of a component
MaxDim == 3
MaxComponent == 2

\* the fixed-point unit of the vectors' components: Unit stands for 1.0
Unit == 1000

RawVectors == UNION { [1..n -> -MaxComponent..MaxComponent] : n \in 1..MaxDim }

RECURSIVE SumOfSquares(_)
SumOfSquares(vec) ==
    IF vec = <<>> THEN 0 ELSE vec[1] * vec[1] + SumOfSquares(Tail(vec))

\* the square root rounded down, found between lo and hi
RECURSIVE SqrtBetween(_, _, _)
SqrtBetween(n, lo, hi) ==
    IF lo = hi THEN lo
    ELSE LET mid == (lo + hi + 1) \div 2 IN
         IF mid * mid <= n THEN SqrtBetween(n, mid, hi) ELSE SqrtBetween(n, lo, mid - 1)

\* 46340 is the largest root whose square fits a 32-bit integer
Sqrt(n) == SqrtBetween(n, 0, Min(n, 46340))

\* a / b rounded to the nearest integer, b > 0
DivRound(a, b) == (2 * a + b) \div (2 * b)

\* `math.sqrt(sum(v*v for v in vec))`, in units
RawNorm(vec) == Sqrt(SumOfSquares(vec) * Unit * Unit)

\* a normalisation without the `or 1.0`
NormNoFallback(vec) == RawNorm(vec)

\* `norm = math.sqrt(sum(v*v for v in vec)) or 1.0`
Norm(vec) == IF RawNorm(vec) = 0 THEN Unit ELSE RawNorm(vec)

\* `[v / norm for v in vec]`, components in units; a division by zero raises
Normalized(vec) ==
    IF Norm(vec) = 0 THEN Raised
    ELSE Returned([k \in 1..Len(vec) |-> DivRound(vec[k] * Unit * Unit, Norm(vec))])

\* the provider answered the raw vector arg
InitEmbed ==
    /\ InitStore(PairOrder)
    /\ use_direct_db \in BOOLEAN
    /\ n_results \in NResultsChoices
    /\ confidence_threshold \in ThresholdChoices
    /\ once = FALSE
    /\ config_error = "none"
    /\ classifier = <<>>
    /\ arg \in RawVectors
    /\ result = NotCalled
    /\ InitInstances
    /\ guardFailures = 0

\* embed_text from the provider's answer to its return
EmbedTextReturns ==
    /\ result = NotCalled
    /\ result' = Normalized(arg)
    /\ UNCHANGED <<cfgVars, classifier, arg, storeVars, loopVars, ideaVars, histVars>>

NextEmbed == EmbedTextReturns

SpecEmbed == InitEmbed /\ [][NextEmbed]_vars

\* the tolerance of the norm: one per cent of the square of 1.0
Tolerance == (Unit * Unit) \div 100

\* C24: embed_text raises no division by zero; what it returns has as many
\* components as the raw vector; its squared norm is 1 within the tolerance
\* unless the raw vector is all zeros, and then it is the raw vector
C24_UnitNorm ==
    result # NotCalled =>
        /\ result.returned
        /\ Len(result.value) = Len(arg)
        /\ IF \A k \in DOMAIN arg : arg[k] = 0
           THEN \A k \in DOMAIN arg : result.value[k] = arg[k] * Unit
           ELSE /\ SumOfSquares(result.value) - Unit * Unit <= Tolerance
                /\ Unit * Unit - SumOfSquares(result.value) <= Tolerance

\* a raw vector with a negative and a zero component has been normalised
C24_Witness ==
    /\ arg = <<-2, 0, 1>>
    /\ result.returned
    /\ result.value[2] = 0

(* ------------- a corpus larger than the neighbour query's answer ------- *)
\* three ideas and similarity_search.n_results = 1: the query answers with
\* two of the three
InitFewResults ==
    /\ InitStore(IdeaOrder)
    /\ use_direct_db \in BOOLEAN
    /\ n_results = 1
    /\ confidence_threshold \in ThresholdChoices
    /\ once = FALSE
    /\ InitInstances
    /\ InitEnvironment
    /\ guardFailures = 0

NextFewResults == Succeeds(1)

SpecFewResults == InitFewResults /\ [][NextFewResults]_vars

\* C25: the neighbour query answers with at most n_results + 1 ids, and of
\* the idea in hand at most n_results neighbours are given to
\* check_existing_relation and at most n_results to determine_relation
C25_AtMostNResultsOthers ==
    \A p \in Instances :
        /\ Len(similar_ids[p]) <= n_results + 1
        /\ Cardinality(checked[p]) <= n_results
        /\ Cardinality(classified[p]) <= n_results

(* ------- a classifier and a neighbour query that are functions --------- *)
\* the ordered pairs (idea in hand, neighbour) the classifier can be asked about
OrderedPairs == { pr \in IdeaIds \X IdeaIds : pr[1] # pr[2] }

\* the two answers of the classifier table: a relation above the threshold, none
TableAnswers == { Dict(FullKeys, "extends", 90, "why"), Dict(FullKeys, "none", 20, "why") }

\* the classifier as a function of the ordered pair it is asked about
ClassifierTables == [OrderedPairs -> TableAnswers]

\* the ideas by their distance from idea id: itself, then the others in an
\* order that does not depend on the listing
RankedIds(id) == <<id>> \o SelectSeq(IdeaOrder, LAMBDA x : x # id)

\* the n_results + 1 nearest of the ideas that have an embedding
NearestFirst(id) ==
    LET emb == SelectSeq(RankedIds(id), LAMBDA x : x \in Embedded) IN
    SubSeq(emb, 1, Min(n_results + 1, Len(emb)))

\* the neighbour query, answered as a function of the store's contents
QueryTable(p) == QueryReturns(p, NearestFirst(Idea(p).id))

\* determine_relation, answered from the classifier table
DetermineRelationTable(p) ==
    DetermineRelationReturns(p, classifier[<<Idea(p).id, SimilarId(p)>>])

\* the corpus listed in any order, some ideas without an embedding, any table
InitTable ==
    /\ \E order \in Arrangements(IdeaIds, Cardinality(IdeaIds)) : InitStore(order)
    /\ use_direct_db \in BOOLEAN
    /\ n_results \in {1, 2}
    /\ confidence_threshold \in ThresholdChoices
    /\ once = FALSE
    /\ config_error = "none"
    /\ classifier \in ClassifierTables
    /\ arg = <<>>
    /\ result = NotCalled
    /\ InitInstances
    /\ guardFailures = 0

\* the steps of a pass without failures when every idea has its embedding
NextSettled ==
    \/ Main(1)
    \/ GetAllIdeasOk(1)
    \/ ForIdea(1)
    \/ QueryTable(1)
    \/ ForSimilar(1)
    \/ CheckExistingRelationOk(1)
    \/ DetermineRelationTable(1)
    \/ StoreRelationDirect(1)
    \/ StoreRelationApi(1)
    \/ RunOnceContinue(1)
    \/ AfterRunOnce(1)
    \/ RunLoopSleep(1)

NextTable == NextSettled \/ UpdateIdeaEmbeddingOk(1)

SpecTable == InitTable /\ [][NextTable]_vars

\* the n_results nearest other ideas of id when every idea has an embedding
NeighboursOf(id) ==
    LET others == SelectSeq(IdeaOrder, LAMBDA x : x # id) IN
    { others[k] : k \in 1..Min(n_results, Len(others)) }

\* the unordered pairs one of whose ideas has the other as a neighbour and
\* gets a relation above the threshold from the classifier table
ExpectedPairs ==
    { {pr[1], pr[2]} : pr \in { q \in OrderedPairs :
          q[2] \in NeighboursOf(q[1]) /\ Qualifies(classifier[q], confidence_threshold) } }

\* the unordered pairs that hold a relation
RelatedPairs == { PairOf(e) : e \in relations_collection }

\* the first pass is over
FirstPassDone == pc[1] = "returned_run_once" /\ passNo[1] = 1

\* in the snapshot no idea with an embedding precedes one without
MissingListedFirst ==
    \A k, l \in DOMAIN ideas[1] : k < l /\ ideas[1][k].embedding => ideas[1][l].embedding

OpaqueIds == {"a", "b", "a->a"}

\* relation types as store_relation and add_relation take them
OpaqueTypes == {"extends", "similar"}

\* (source_id, target_id, relation_type)
Triples == OpaqueIds \X OpaqueIds \X OpaqueTypes

\* two relations are about to be given their record ids
InitRid ==
    /\ InitStore(PairOrder)
    /\ use_direct_db \in BOOLEAN
    /\ n_results \in NResultsChoices
    /\ confidence_threshold \in ThresholdChoices
    /\ once = FALSE
    /\ config_error = "none"
    /\ classifier = <<>>
    /\ arg \in Triples \X Triples
    /\ result = NotCalled
    /\ InitInstances
    /\ guardFailures = 0

\* store_relation or add_relation composes the record id of each
RidReturns ==
    /\ result = NotCalled
    /\ result' = Returned(<<Rid(arg[1][1], arg[1][2], arg[1][3]),
                            Rid(arg[2][1], arg[2][2], arg[2][3])>>)
    /\ UNCHANGED <<cfgVars, classifier, arg, storeVars, loopVars, ideaVars, histVars>>

NextRid == RidReturns

SpecRid == InitRid /\ [][NextRid]_vars

\* C27: two triples that differ in a component get different record ids
C27_RidInjective ==
    result.returned /\ arg[1] # arg[2] => result.value[1] # result.value[2]

(* ------------------- a corpus whose embeddings are complete ------------ *)
\* the corpus listed in any order, every idea with its embedding, any table
InitSettled ==
    /\ InitTable
    /\ \A k \in DOMAIN ideas_collection : ideas_collection[k].embedding

SpecSettled == InitSettled /\ [][NextSettled]_vars

\* C28: once the first pass is over no step changes the relation store: the
\* set of records and every record's content stay what they were
C28_SecondPassWritesNothing ==
    [][passNo[1] >= 1 /\ (passNo[1] = 1 => pc[1] \in {"returned_run_once", "sleep", "run_once"})
          => relations_collection' = relations_collection]_vars

\* in the second pass a pair without relation is classified again while the
\* relation store holds a record of the first pass
C28_Witness ==
    /\ passNo[1] = 2
    /\ pc[1] = "determine_relation"
    /\ relations_collection # {}

\* C29: in a pass no idea is handed to process_idea twice; while an idea is
\* processed the neighbour query's answer names no idea twice and no
\* neighbour is classified twice; and the classifier is asked about a pair
\* only while no record exists between the two ideas, so it is asked from the
\* second idea's side only if asking from the first's left no record
C29_ClassifiedOncePerSide ==
    /\ [](/\ \A k, l \in DOMAIN invoked[1] : invoked[1][k] = invoked[1][l] => k = l
          /\ \A k, l \in DOMAIN similar_ids[1] : similar_ids[1][k] = similar_ids[1][l] => k = l
          /\ pc[1] = "determine_relation" =>
                /\ SimilarId(1) \notin classified[1]
                /\ RecordsBetween(Idea(1).id, SimilarId(1)) = {})
    /\ [][Len(invoked'[1]) > Len(invoked[1]) => checked[1] = {} /\ classified[1] = {}]_vars
    /\ [][classified'[1] # classified[1] /\ classified'[1] # {} =>
              /\ pc[1] = "determine_relation"
              /\ classified'[1] = classified[1] \cup {SimilarId(1)}]_vars

\* B is processed after A in the same pass and the classifier is asked about
\* the pair from B's side
C29_Witness ==
    /\ pc[1] = "determine_relation"
    /\ Idea(1).id = "B"
    /\ SimilarId(1) = "A"
    /\ invoked[1] = <<"A", "B">>

(* ------------------------ an empty or unlisted corpus ------------------ *)
\* continuous mode over a corpus of two ideas or of none
InitListing == InitPair \/ InitWith(<<>>)

SpecListing == InitListing /\ [][Next]_vars /\ WF_vars(Next)

\* C30: a listing that fails or finds no idea leaves run_once with an empty
\* snapshot and as a normal return; while the snapshot is empty no idea is
\* handed to process_idea and neither store is written; run_loop then sleeps
\* and calls run_once again, which lists the corpus again
C30_EmptyListing ==
    /\ [](ideas[1] = <<>> =>
             /\ pc[1] \in {"main", "run_once", "returned_run_once", "sleep"}
             /\ invoked[1] = <<>>)
    /\ [][ideas[1] = <<>> /\ ideas'[1] = <<>> =>
             /\ UNCHANGED storeVars
             /\ pc[1] = "run_once" /\ pc'[1] # pc[1] => pc'[1] = "returned_run_once"
             /\ pc[1] = "returned_run_once" /\ pc'[1] # pc[1] => pc'[1] = "sleep"
             /\ pc[1] = "sleep" /\ pc'[1] # pc[1] => pc'[1] = "run_once"]_vars
    /\ \A n \in 1..(MaxPasses - 1) :
          (pc[1] = "returned_run_once" /\ ideas[1] = <<>> /\ passNo[1] = n)
              ~> (passNo[1] = n + 1)

\* the listing of the first pass failed over a corpus of two ideas, run_once
\* returned, the loop slept and is about to list again
C30_Witness ==
    /\ pc[1] = "run_once"
    /\ passNo[1] = 1
    /\ ideas[1] = <<>>
    /\ ideas_collection # <<>>

====
